---- MODULE Spec2Model ----
(***************************************************************************)
(* StockSight backend: the cached retrieval layer.                         *)
(*                                                                         *)
(*   services/cache.py              CacheService, cache_result             *)
(*   services/marketstack.py        MarketStackClient (cache + 429 retry)  *)
(*   services/marketstack_client.py rate_limit, MarketStackClient          *)
(*   services/company_browse.py, services/news.py  cached operations       *)
(*                                                                         *)
(* Strings are sequences of one-character strings, so that str(), the      *)
(* f-strings, ":".join and sorted() are computed as Python computes them.  *)
(* Time is in seconds.                                                     *)
(***************************************************************************)
EXTENDS Integers, Sequences, FiniteSets, TLC

VARIABLES
    callA, callB,      \* key derivation: the two calls under comparison
    keyA, keyB,        \* their cache keys (NoKey before derivation)
    now,               \* the clock, in seconds
    ticks,             \* how often the clock has advanced
    store,             \* Redis: key -> [val, exp, ...], the entries ever SETEX'ed
    task,              \* the request-handling tasks and where each one stands
    nCalls,            \* operations started so far
    focus,             \* the operation this run exercises
    served,            \* request -> what its last successful call returned, and until when
    rnow,              \* rate_limit: the clock, in seconds
    timestamps,        \* rate_limit: the list the decorator closes over
    sleeping,          \* rate_limit: wake-up time -> callers suspended until then
    started,           \* rate_limit: the times the wrapped function was entered
    arrivals,          \* rate_limit: calls made so far
    owned,             \* rate_limit: client instance -> the entries of the list it appended
    lastCall,          \* rate_limit: the instance of the last call and whether it was suspended
    cancelled,         \* rate_limit: calls cancelled while suspended
    oplog,             \* CacheService: the sets and deletes Redis has executed, in order
    got,               \* CacheService: the get just made and what it returned
    mcache,            \* CompanyDataService._cache: symbol -> combined data
    mexpiry,           \* CompanyDataService._cache_expiry: symbol -> time of the write
    fig,               \* get_company_figures: where the call stands
    figB,              \* get_company_figures: a second call on the same service
    ageChecked         \* a caller has compared a stored timestamp with the clock

keyVars == <<callA, callB, keyA, keyB>>
mainVars == <<now, ticks, store, task, nCalls, focus, served>>

rateVars == <<rnow, timestamps, sleeping, started, arrivals, owned, lastCall, cancelled>>

storeVars == <<oplog, got, mcache, mexpiry, fig, figB, ageChecked>>

vars == <<keyVars, mainVars, rateVars, storeVars>>

(***************************************************************************)
(* Bounds of the model.                                                    *)
(***************************************************************************)
MaxPos == 2            \* positional arguments of one call (besides self)
MaxAddr == 2           \* distinct instance ids a service object can get
MaxArrivals == 11      \* calls made through the rate limiter in one run
MaxRTime == 2          \* seconds the rate limiter's clock runs
RetryBound == 1        \* the retry bound R the retry claims are stated for
MaxCalls == 2          \* operations started in one run
MaxTicks == 2          \* clock advances in one run
MaxItems == 1          \* elements of a provider payload
MaxAttempts == 3       \* provider requests of one call (the provider stops throttling then)

(***************************************************************************)
(* Characters and their order (code points, as Python compares str).       *)
(***************************************************************************)
Alphabet == <<" ", "\"", ",", "0", "1", "2", "3", "4", "5", "6", "7", "8", "9", ":", "<", ">",
              "N", "[", "]", "_", "a", "b", "c", "d", "e", "f", "g", "h", "i", "j", "k",
              "l", "m", "n", "o", "p", "q", "r", "s", "t", "u", "v", "w", "x", "y", "z",
              "{", "}">>

Ord(c) == CHOOSE i \in 1..Len(Alphabet) : Alphabet[i] = c

\* str.__lt__: lexicographic by code point, a proper prefix is smaller
RECURSIVE StrLess(_, _)
StrLess(s, t) ==
    IF t = <<>> THEN FALSE
    ELSE IF s = <<>> THEN TRUE
    ELSE IF Ord(Head(s)) < Ord(Head(t)) THEN TRUE
    ELSE IF Ord(Head(s)) > Ord(Head(t)) THEN FALSE
    ELSE StrLess(Tail(s), Tail(t))

\* sep.join(parts)
RECURSIVE join(_, _)
join(sep, parts) ==
    IF parts = <<>> THEN <<>>
    ELSE IF Len(parts) = 1 THEN parts[1]
    ELSE parts[1] \o sep \o join(sep, Tail(parts))

Digits == <<"0", "1", "2", "3", "4", "5", "6", "7", "8", "9">>

\* str(n) for an int n >= 0
RECURSIVE IntStr(_)
IntStr(n) == IF n < 10 THEN <<Digits[n + 1]>> ELSE IntStr(n \div 10) \o <<Digits[(n % 10) + 1]>>

(***************************************************************************)
(* Argument values: a str, or a service instance (the `self` a decorated   *)
(* method receives as args[0]).  An instance has no __str__/__repr__, so   *)
(* str(self) is object.__repr__: the class name and the instance's id.     *)
(***************************************************************************)
StrVal(s) == [type |-> "str", s |-> s]
IntVal(n) == [type |-> "int", n |-> n]
ObjVal(a) == [type |-> "obj", addr |-> a]

\* object.__repr__(self): "<N object at 0x..>", N the class
ObjRepr(a) ==
    <<"<", "N", " ", "o", "b", "j", "e", "c", "t", " ", "a", "t", " ", "0", "x">>
        \o IntStr(a) \o <<">">>

\* str(arg)
str(v) ==
    IF v.type = "str" THEN v.s
    ELSE IF v.type = "int" THEN IntStr(v.n)
    ELSE ObjRepr(v.addr)

\* tuple order of (k, v) items; dict keys are unique, so k decides
ItemLess(x, y) == StrLess(x[1], y[1])

\* sorted(kwargs.items())
RECURSIVE InsertSorted(_, _)
InsertSorted(x, seq) ==
    IF seq = <<>> THEN <<x>>
    ELSE IF ItemLess(x, Head(seq)) THEN <<x>> \o seq
    ELSE <<Head(seq)>> \o InsertSorted(x, Tail(seq))

\* the mutant of sorted: the items in insertion order
unsorted(items) == items

RECURSIVE sorted(_)
sorted(items) ==
    IF items = <<>> THEN <<>> ELSE InsertSorted(Head(items), sorted(Tail(items)))

\* hashlib.md5(key_string.encode()).hexdigest(): a fixed function of the
\* key string, with no seed.  The digest is kept symbolic: two digests are
\* equal exactly when the key strings are (no collision inside the model).
md5_hexdigest(key_string) == [kind |-> "md5", s |-> key_string]

\* cache.py:37-40, the string that is hashed
key_string(prefix, args, kwargs) ==
    LET skw == sorted(kwargs)
        key_parts == <<prefix>>
                     \o [i \in 1..Len(args) |-> str(args[i])]
                     \o [i \in 1..Len(skw) |-> skw[i][1] \o <<":">> \o str(skw[i][2])]
    IN  join(<<":">>, key_parts)

\* CacheService._generate_key(prefix, *args, **kwargs)
_generate_key(prefix, args, kwargs) == md5_hexdigest(key_string(prefix, args, kwargs))

\* json.dumps of a str or int value / of a dict with sort_keys=True
json_str(s) == <<"\"">> \o s \o <<"\"">>
json_val(v) == IF v.type = "int" THEN IntStr(v.n) ELSE json_str(v.s)

json_dumps_sorted(d) ==
    LET sd == sorted(d)
    IN  <<"{">>
        \o join(<<",", " ">>,
                [i \in 1..Len(sd) |-> json_str(sd[i][1]) \o <<":", " ">> \o json_val(sd[i][2])])
        \o <<"}">>

\* d[k] = v on a dict kept as its items in insertion order
DictSet(d, k, v) ==
    IF \E i \in 1..Len(d) : d[i][1] = k
    THEN [i \in 1..Len(d) |-> IF d[i][1] = k THEN <<k, v>> ELSE d[i]]
    ELSE Append(d, <<k, v>>)

ACCESS_KEY == <<"a", "c", "c", "e", "s", "s", "_", "k", "e", "y">>
MARKETSTACK == <<"m", "a", "r", "k", "e", "t", "s", "t", "a", "c", "k">>
ApiKey == StrVal(<<"s", "e", "c", "r", "e", "t">>)   \* settings.marketstack_api_key

\* marketstack.py:81-84, the cache key of a request
ms_cache_key(endpoint, params) ==
    LET request_params == DictSet(params, ACCESS_KEY, ApiKey)
    IN  [kind |-> "raw",
         s |-> MARKETSTACK \o <<":">> \o endpoint \o <<":">> \o json_dumps_sorted(request_params)]

(***************************************************************************)
(* The calls whose keys are derived.  A call through cache_result is a     *)
(* decorated method `func` of a service instance `self`, with positional   *)
(* arguments and keyword arguments (in insertion order); a call through    *)
(* MarketStackClient._make_request is an endpoint `func` with its params   *)
(* dict as `kwargs`.                                                       *)
(***************************************************************************)
NoKey == [kind |-> "none", s |-> <<>>]

\* both decorated with prefix "news" (news.py:196 and news.py:497)
Funcs == {"fetch_news", "fetch_competitor_news"}
NEWS == <<"n", "e", "w", "s">>
BROWSE_THERAPEUTIC ==
    <<"b", "r", "o", "w", "s", "e", ":", "t", "h", "e", "r", "a", "p", "e", "u", "t", "i", "c">>
SEC_MARKET_CAP == <<"s", "e", "c", ":", "m", "a", "r", "k", "e", "t", "_", "c", "a", "p">>

\* the prefix each method is decorated with
PrefixOf(func) ==
    CASE func = "get_therapeutic_areas" -> BROWSE_THERAPEUTIC
      [] func = "_get_company_market_cap" -> SEC_MARKET_CAP
      [] OTHER -> NEWS

Endpoints == {"eod", "tickers"}
EndpointStr(e) == IF e = "eod" THEN <<"e", "o", "d">> ELSE <<"t", "i", "c", "k", "e", "r", "s">>

\* parameter names of the decorated methods, in signature order
ParamNames == <<<<"a">>, <<"k">>, <<"q">>>>
ArgStrs == {<<"a">>, <<"b">>, <<"a", ":", "b">>}     \* positional values
KwStrs == {<<"b">>, <<"v">>}                         \* keyword values
Addrs == 1..MaxAddr

InjSeqs(S, n) == {f \in [1..n -> S] : \A i, j \in 1..n : f[i] = f[j] => i = j}

\* every dict over the names S, as its items in every insertion order
Dicts(S) ==
    UNION {{[i \in 1..n |-> <<ns[i], StrVal(vs[i])>>] : ns \in InjSeqs(S, n), vs \in [1..n -> KwStrs]}
           : n \in 0..Cardinality(S)}

NamesFrom(p) == {ParamNames[i] : i \in (p + 1)..Len(ParamNames)}

MinOf(a, b) == IF a < b THEN a ELSE b

DecoratedCalls(funcs, addrs) ==
    UNION {{[via |-> "cache_result", func |-> f, self |-> a,
             args |-> [i \in 1..p |-> StrVal(as[i])], kwargs |-> kw]
            : f \in funcs, a \in addrs, as \in [1..p -> ArgStrs], kw \in Dicts(NamesFrom(p))}
           : p \in 0..MinOf(MaxPos, Len(ParamNames))}

ClientCalls(endpoints, addrs) ==
    {[via |-> "marketstack", func |-> e, self |-> a, args |-> <<>>, kwargs |-> kw]
     : e \in endpoints, a \in addrs, kw \in Dicts(NamesFrom(0))}

\* cache.py:113-115: the wrapper of a decorated method receives self as args[0]
WrapperKey(c) == _generate_key(PrefixOf(c.func), <<ObjVal(c.self)>> \o c.args, c.kwargs)

ClientKey(c) == ms_cache_key(EndpointStr(c.func), c.kwargs)

KeyOf(c) == IF c.via = "cache_result" THEN WrapperKey(c) ELSE ClientKey(c)

\* the state the other specifications leave untouched
NoGet == [key |-> [kind |-> "none", s |-> <<>>], val |-> [t |-> "none", n |-> 0], up |-> FALSE]
\* the three upstream sources get_company_figures combines
Sources == {"market", "sec", "fda"}
NoFig == [pc |-> "idle", symbol |-> "none", at |-> 0, stamp |-> -1, failed |-> {}, fetches |-> 0,
          result |-> [src \in Sources |-> "none"]]

StoreIdle ==
    /\ oplog = <<>>
    /\ got = NoGet
    /\ mcache = <<>>
    /\ mexpiry = <<>>
    /\ fig = NoFig
    /\ figB = NoFig
    /\ ageChecked = FALSE

RateIdle ==
    /\ rnow = 0
    /\ timestamps = <<>>
    /\ sleeping = <<>>
    /\ started = <<>>
    /\ arrivals = 0
    /\ owned = [i \in Addrs |-> <<>>]
    /\ lastCall = [inst |-> 0, slept |-> FALSE]
    /\ cancelled = 0

MainIdle ==
    /\ now = 0
    /\ ticks = 0
    /\ store = <<>>
    /\ task = [t \in {} |-> 0]
    /\ nCalls = 0
    /\ focus = "none"
    /\ served = <<>>

\* the first call is fixed up to the symmetry of the two methods and of the ids
KeyInit ==
    /\ MainIdle
    /\ RateIdle
    /\ StoreIdle
    /\ \/ /\ callA \in DecoratedCalls({"fetch_news"}, {1})
          /\ callB \in DecoratedCalls(Funcs, Addrs)
       \/ /\ callA \in ClientCalls({"eod"}, {1})
          /\ callB \in ClientCalls(Endpoints, Addrs)
    /\ keyA = NoKey
    /\ keyB = NoKey

DeriveA ==
    /\ keyA = NoKey
    /\ keyA' = KeyOf(callA)
    /\ UNCHANGED <<callA, callB, keyB, mainVars, rateVars, storeVars>>

DeriveB ==
    /\ keyA # NoKey
    /\ keyB = NoKey
    /\ keyB' = KeyOf(callB)
    /\ UNCHANGED <<callA, callB, keyA, mainVars, rateVars, storeVars>>

KeyNext == DeriveA \/ DeriveB

KeySpec == KeyInit /\ [][KeyNext]_vars

(***************************************************************************)
(* Claims about key derivation (checked under KeySpec).                    *)
(***************************************************************************)
Derived == keyA # NoKey /\ keyB # NoKey

\* a dict as a mapping, its insertion order forgotten
Items(d) == {d[i] : i \in 1..Len(d)}

\* what is asked for: the operation and the value bound to each parameter,
\* however it was passed and whichever instance it was asked through
LogicalRequest(c) ==
    [via |-> c.via, func |-> c.func,
     bound |-> {<<ParamNames[i], c.args[i]>> : i \in 1..Len(c.args)} \cup Items(c.kwargs)]

\* C5: two logically identical requests derive the same cache key, whichever
\* service instance issues the call and whether an argument is passed
\* positionally or by keyword.
C5_SameRequestSameKey ==
    (Derived /\ LogicalRequest(callA) = LogicalRequest(callB)) => keyA = keyB

\* C6: two requests that differ in the operation or in an argument value
\* never share key material.
C6_DifferentRequestDifferentKey ==
    (Derived /\ LogicalRequest(callA) # LogicalRequest(callB)) => keyA # keyB

\* C7: the key does not depend on the insertion order of the keyword
\* arguments (of the request params): two derivations from the same
\* operation, instance and positional arguments and the same keyword
\* mapping yield the identical key.
C7_KeyIgnoresKwargOrder ==
    (/\ Derived
     /\ callA.via = callB.via /\ callA.func = callB.func /\ callA.self = callB.self
     /\ callA.args = callB.args
     /\ Items(callA.kwargs) = Items(callB.kwargs))
    => keyA = keyB

\* C7 witness: both keys derived from three keyword arguments given in two
\* different insertion orders, through the decorator
C7_Witness ==
    /\ Derived
    /\ callA.via = "cache_result" /\ callB.via = "cache_result"
    /\ callA.func = callB.func /\ callA.self = callB.self /\ callA.args = callB.args
    /\ Items(callA.kwargs) = Items(callB.kwargs)
    /\ Len(callA.kwargs) = 3
    /\ callA.kwargs # callB.kwargs
    /\ keyA = keyB

(***************************************************************************)
(* Python values that are cached, and their JSON text.                     *)
(***************************************************************************)
PyNone == [t |-> "none", n |-> 0]
PyList(n) == [t |-> "list", n |-> n]     \* a list of n elements
PyDict(n) == [t |-> "dict", n |-> n]     \* {} or {"data": [n elements]}
PyNum(x) == [t |-> "num", n |-> x]
PyStr(i) == [t |-> "str", n |-> i]       \* a non-empty str, told apart by its number i >= 1

PyValues == {PyNone} \cup {PyList(n) : n \in 0..MaxItems} \cup {PyDict(n) : n \in 0..MaxItems}
            \cup {PyNum(n) : n \in 1..MaxItems} \cup {PyStr(i) : i \in 1..(MaxTicks + 1)}

\* bool(v)
Truthy(v) == v.t # "none" /\ v.n # 0

RECURSIVE Elems(_)
Elems(n) == IF n = 0 THEN "" ELSE IF n = 1 THEN "1" ELSE Elems(n - 1) \o ", 1"

\* json.dumps(v)
json_dumps(v) ==
    CASE v.t = "none" -> "null"
      [] v.t = "list" -> "[" \o Elems(v.n) \o "]"
      [] v.t = "dict" -> IF v.n = 0 THEN "{}" ELSE "{\"data\": [" \o Elems(v.n) \o "]}"
      [] v.t = "num" -> ToString(v.n)
      [] v.t = "str" -> "\"s" \o ToString(v.n) \o "\""

\* json.loads(s)
json_loads(s) == CHOOSE v \in PyValues : json_dumps(v) = s

(***************************************************************************)
(* Redis.  GET answers nil for a key never set or whose TTL has elapsed;   *)
(* SETEX replaces the whole entry.  An unreachable server makes the client *)
(* raise redis.ConnectionError.  `failed` is history: the entry was        *)
(* written by a call whose provider request had failed.                    *)
(***************************************************************************)
Nil == "(nil)"

\* the expiry of a key that has none (what TTL answers -1 for)
NoExpiry == -1

\* the mutant of Live: an entry never expires
LiveForever(k) == k \in DOMAIN store

Live(k) == k \in DOMAIN store /\ (store[k].exp = NoExpiry \/ now < store[k].exp)

redis_get(k) == IF Live(k) THEN store[k].val ELSE Nil

\* the mutant of redis_setex: SET, which stores the value without an expiry
redis_set(k, ttl, val, failed) ==
    [x \in DOMAIN store \cup {k} |->
        IF x = k THEN [val |-> val, exp |-> NoExpiry, failed |-> failed]
        ELSE store[x]]

\* the mutant of redis_setex: a live entry is not overwritten (SET NX EX)
redis_setnx(k, ttl, val, failed) ==
    IF Live(k) THEN store
    ELSE [x \in DOMAIN store \cup {k} |->
            IF x = k THEN [val |-> val, exp |-> now + ttl, failed |-> failed]
            ELSE store[x]]

\* SETEX key ttl value, for a ttl Redis accepts (an integer > 0)
redis_setex(k, ttl, val, failed) ==
    [x \in DOMAIN store \cup {k} |->
        IF x = k THEN [val |-> val, exp |-> now + ttl, failed |-> failed]
        ELSE store[x]]

\* the mutant of redis_del: the key is left as it is
redis_keep(k) == store

\* DEL key
redis_del(k) == [x \in DOMAIN store \ {k} |-> store[x]]

\* Redis answers SETEX with an error ("invalid expire time") unless ttl > 0
setex_accepts(ttl) == ttl > 0

\* CacheService.aget: `up` is whether Redis answers
aget(key, up) ==
    IF ~up THEN PyNone                       \* except Exception: return None
    ELSE LET value == redis_get(key)
         IN  IF value # Nil /\ value # "" THEN json_loads(value) ELSE PyNone

\* CacheService.aset: the store after it
aset(key, value, expire, up, failed) ==
    IF ~up \/ ~setex_accepts(expire)
    THEN store                               \* except Exception: return False
    ELSE redis_setex(key, expire, json_dumps(value), failed)

\* CacheService.adelete: the store after it
adelete(key, up) == IF ~up THEN store ELSE redis_del(key)

SEARCH_RESULTS_EXPIRY == 3600
NEWS_EXPIRE == 3600

(***************************************************************************)
(* The operations a task can start.                                        *)
(*   areas   CompanyBrowseService.get_therapeutic_areas()                  *)
(*   cap     CompanyBrowseService._get_company_market_cap(cik)             *)
(*   news    NewsService.fetch_news(query, from_date, to_date, "en", 100)  *)
(*   eod     MarketDataService.get_eod_data(symbol, date_from, date_to)    *)
(*   latest  marketstack_client.MarketStackClient.get_real_time_price      *)
(***************************************************************************)
\* Spec runs one request-handling task, which issues its operations one
\* after the other
SeqTasks == {"t1"}

Queries == {<<>>, <<"a">>}                   \* an empty and a non-empty query / symbol
DateRanges == {<<1, 2>>, <<2, 1>>}           \* (from, to) as days of January 2024

\* date.strftime('%Y-%m-%d'), the format fetch_news takes its dates in
DateStr(d) == <<"2", "0", "2", "4", "-", "0", "1", "-", "0">> \o IntStr(d)

\* datetime.strptime(s, "%Y-%m-%d")
ParseDate(s) == CHOOSE d \in 1..9 : DateStr(d) = s

MainCall(op, self, q, r) == [op |-> op, self |-> self, q |-> q, df |-> r[1], dt |-> r[2]]

MainCalls ==
    {MainCall("areas", a, <<>>, <<0, 0>>) : a \in Addrs}
    \cup {MainCall("cap", 1, <<"7">>, <<0, 0>>)}
    \cup {MainCall("news", 1, q, r) : q \in Queries, r \in DateRanges}
    \cup {MainCall("eod", 1, q, r) : q \in Queries, r \in DateRanges}
    \cup {MainCall("latest", 1, <<"a">>, <<0, 0>>)}

NoCall == MainCall("none", 0, <<>>, <<0, 0>>)

Decorated == {"areas", "cap", "news"}

ExpireOf(op) == IF op = "news" THEN NEWS_EXPIRE ELSE SEARCH_RESULTS_EXPIRY

EN == <<"e", "n">>
SYMBOLS == <<"s", "y", "m", "b", "o", "l", "s">>
LIMIT == <<"l", "i", "m", "i", "t">>
OFFSET == <<"o", "f", "f", "s", "e", "t">>
DATE_FROM == <<"d", "a", "t", "e", "_", "f", "r", "o", "m">>
DATE_TO == <<"d", "a", "t", "e", "_", "t", "o">>

\* MarketStackClient.get_eod_data: the params dict, in insertion order
EodParams(c) ==
    <<<<SYMBOLS, StrVal(c.q)>>, <<LIMIT, IntVal(100)>>, <<OFFSET, IntVal(0)>>,
      <<DATE_FROM, StrVal(DateStr(c.df))>>, <<DATE_TO, StrVal(DateStr(c.dt))>>>>

\* marketstack_client.py:77, get_real_time_price: the params dict
LatestParams(c) == <<<<SYMBOLS, StrVal(c.q)>>>>

\* the params dict the operation hands to _make_request
CallParams(c) ==
    CASE c.op = "eod" -> EodParams(c)
      [] c.op = "latest" -> LatestParams(c)
      [] OTHER -> <<>>

\* the cache key the call is looked up and stored under
CallKey(c) ==
    CASE c.op = "areas" -> _generate_key(PrefixOf("get_therapeutic_areas"), <<ObjVal(c.self)>>, <<>>)
      [] c.op = "cap" ->
            _generate_key(PrefixOf("_get_company_market_cap"), <<ObjVal(c.self), StrVal(c.q)>>, <<>>)
      [] c.op = "news" ->
            _generate_key(PrefixOf("fetch_news"),
                          <<ObjVal(c.self), StrVal(c.q), StrVal(DateStr(c.df)),
                            StrVal(DateStr(c.dt)), StrVal(EN), IntVal(100)>>, <<>>)
      [] c.op = "eod" -> ms_cache_key(EndpointStr("eod"), EodParams(c))
      [] OTHER -> NoKey

NoValue == [t |-> "absent", n |-> 0]

\* what a provider request ends in: an HTTP response with a status, or a
\* transport error (httpx.RequestError; httpx.TimeoutException in fetch_news)
Statuses == {200, 404, 429, 503}
Responses == {[kind |-> "http", code |-> c] : c \in Statuses} \cup {[kind |-> "error", code |-> 0]}

NoErr == [type |-> "none", status |-> 0]
HTTPException(status) == [type |-> "HTTPException", status |-> status]
ConnectionError == [type |-> "redis.ConnectionError", status |-> 0]

IdleTask ==
    [pc |-> "idle", call |-> NoCall, key |-> NoKey,
     params |-> <<>>,        \* the dict object handed to _make_request, as it is now
     lk |-> "none",          \* outcome of this invocation's lookup: hit, miss, raised
     sawLive |-> FALSE,      \* the lookup's GET returned a stored, unexpired value
     sawExpired |-> FALSE,   \* the lookup's GET met an entry whose TTL had elapsed
     lkAt |-> 0,             \* when the lookup was made
     seen |-> NoValue,       \* what the lookup's GET decoded to (None: nothing usable)
     fetches |-> 0,          \* fetches made by this invocation
     requests |-> 0,         \* provider requests issued by this call
     resp |-> <<>>,          \* what the provider answered them, in order (0: no response)
     attempts |-> 0,         \* requests of this call through _make_request
     sleeps |-> 0,           \* backoff delays of this call
     n5xx |-> 0,             \* 5xx responses this call received
     fetched |-> NoValue,    \* the value the fetch returned
     fetchFailed |-> FALSE,  \* the provider request of this invocation failed
     cacheFailed |-> FALSE,  \* a cache get or set of this call met an unreachable Redis
     wroteLast |-> FALSE,    \* this call's set is the last one Redis executed on its key
     until |-> 0,            \* when the entry this call wrote or was served from expires
     sets |-> 0,             \* cache sets this call issued
     setAfter |-> 0,         \* provider responses this call had received at its last set
     result |-> NoValue, err |-> NoErr, wake |-> 0]

MainInit ==
    /\ now = 0
    /\ ticks = 0
    /\ store = <<>>
    /\ task = [t \in SeqTasks |-> IdleTask]
    /\ nCalls = 0
    /\ focus \in {"areas", "cap", "news", "eod", "latest"}
    /\ served = <<>>
    /\ callA = NoCall /\ callB = NoCall /\ keyA = NoKey /\ keyB = NoKey
    /\ RateIdle
    /\ StoreIdle

\* a task starts an operation: up to the first await of the wrapper
\* (cache.py:114-115) or of _make_request (marketstack.py:81-84)
Call(t) ==
    /\ task[t].pc = "idle"
    /\ nCalls < MaxCalls
    /\ \E c \in {x \in MainCalls : x.op = focus} :
          task' = [task EXCEPT ![t] =
                     [IdleTask EXCEPT !.call = c, !.key = CallKey(c),
                                      !.params = CallParams(c),
                                      !.pc = IF c.op \in Decorated THEN "lookup"
                                             ELSE IF c.op = "eod" THEN "ms_lookup"
                                             ELSE "rc_request"]]
    /\ nCalls' = nCalls + 1
    /\ UNCHANGED <<now, ticks, store, focus, served, keyVars, rateVars, storeVars>>

\* the mutant of Lookup: the wrapper ignores what the cache returned
LookupIgnoringHit(t) ==
    /\ task[t].pc = "lookup"
    /\ \E up \in BOOLEAN :
          LET cached_result == aget(task[t].key, up)
              saw == up /\ Live(task[t].key)
          IN  task' = [task EXCEPT ![t].pc = "fetch",
                                   ![t].lk = IF cached_result # PyNone THEN "hit" ELSE "miss",
                                   ![t].sawLive = saw, ![t].cacheFailed = ~up]
    /\ UNCHANGED <<now, ticks, store, nCalls, focus, served, keyVars, rateVars, storeVars>>

\* the mutant of Lookup: a hit renews the expiry of the entry it serves
LookupTouching(t) ==
    /\ task[t].pc = "lookup"
    /\ LET cached_result == aget(task[t].key, TRUE)
       IN  IF cached_result # PyNone
           THEN /\ task' = [task EXCEPT ![t].pc = "done", ![t].lk = "hit", ![t].sawLive = TRUE,
                                         ![t].lkAt = now,
                                         ![t].until = store[task[t].key].exp,
                                         ![t].result = cached_result]
                /\ store' = [store EXCEPT ![task[t].key].exp = now + ExpireOf(task[t].call.op)]
           ELSE /\ task' = [task EXCEPT ![t].pc = "fetch", ![t].lk = "miss", ![t].lkAt = now]
                /\ store' = store
    /\ UNCHANGED <<now, ticks, nCalls, focus, served, keyVars, rateVars, storeVars>>

\* cache_result.wrapper, cache.py:117-121
Lookup(t) ==
    /\ task[t].pc = "lookup"
    /\ \E up \in BOOLEAN :
          LET cached_result == aget(task[t].key, up)
              saw == up /\ Live(task[t].key)
              old == up /\ task[t].key \in DOMAIN store /\ ~Live(task[t].key)
          IN  IF cached_result # PyNone
              THEN task' = [task EXCEPT ![t].pc = "done", ![t].lk = "hit", ![t].sawLive = saw,
                                        ![t].lkAt = now, ![t].seen = cached_result,
                                        ![t].until = store[task[t].key].exp,
                                        ![t].result = cached_result]
              ELSE task' = [task EXCEPT ![t].pc = "fetch", ![t].lk = "miss", ![t].sawLive = saw,
                                        ![t].sawExpired = old, ![t].lkAt = now,
                                        ![t].seen = cached_result,
                                        ![t].cacheFailed = ~up]
    /\ UNCHANGED <<now, ticks, store, nCalls, focus, served, keyVars, rateVars, storeVars>>

\* the input checks of fetch_news, news.py:226-234 with _validate_dates
InvalidNews(c) ==
    \/ ParseDate(DateStr(c.dt)) < ParseDate(DateStr(c.df))      \* to_dt < from_dt
    \/ c.q = <<>>                                               \* not query.strip()

\* cache_result.wrapper, cache.py:124, with the body of the decorated method
Fetch(t) ==
    LET c == task[t].call
        me == [task[t] EXCEPT !.fetches = @ + 1] IN
    /\ task[t].pc = "fetch"
    /\ \E r \in Responses, n \in 0..MaxItems :
          LET ok == r.kind = "http" /\ r.code = 200
              asked == [me EXCEPT !.requests = @ + 1, !.resp = Append(@, r.code),
                                  !.fetchFailed = ~ok]
          IN
          CASE c.op = "areas" ->
                 \* company_browse.py:21-37: any failure is answered with []
                 task' = [task EXCEPT ![t] =
                            [asked EXCEPT !.pc = "store",
                                          !.fetched = IF ok THEN PyList(n) ELSE PyList(0)]]
            [] c.op = "cap" ->
                 \* company_browse.py:155-174: no share count, or any failure, is None
                 task' = [task EXCEPT ![t] =
                            [asked EXCEPT !.pc = "store",
                                          !.fetched = IF ok /\ n > 0 THEN PyNum(n) ELSE PyNone]]
            [] OTHER ->
                 IF InvalidNews(c)
                 THEN task' = [task EXCEPT ![t] = [me EXCEPT !.pc = "done",
                                                             !.err = HTTPException(400)]]
                 ELSE IF ok
                 THEN task' = [task EXCEPT ![t] = [asked EXCEPT !.pc = "store",
                                                                !.fetched = PyList(n)]]
                 ELSE task' = [task EXCEPT ![t] =
                                 [asked EXCEPT !.pc = "done",
                                               !.n5xx = IF r.code >= 500 THEN @ + 1 ELSE @,
                                               !.err = IF r.kind = "error" THEN HTTPException(504)
                                                       ELSE HTTPException(r.code)]]
    /\ UNCHANGED <<now, ticks, store, nCalls, focus, served, keyVars, rateVars, storeVars>>

\* history: when Redis executes the set of task t, that set is the last one
\* on its key and the sets of the other calls on that key no longer are
Superseded(t, executed) ==
    [u \in DOMAIN task |->
        IF ~executed THEN task[u]
        ELSE IF u = t THEN [task[u] EXCEPT !.wroteLast = TRUE]
        ELSE IF task[u].key = task[t].key THEN [task[u] EXCEPT !.wroteLast = FALSE]
        ELSE task[u]]

\* cache_result.wrapper, cache.py:126-130
Store(t) ==
    /\ task[t].pc = "store"
    /\ \E up \in BOOLEAN :
          /\ store' = aset(task[t].key, task[t].fetched, ExpireOf(task[t].call.op), up,
                           task[t].fetchFailed)
          /\ task' = [Superseded(t, up) EXCEPT
                                   ![t].pc = "done", ![t].result = task[t].fetched,
                                   ![t].sets = @ + 1, ![t].setAfter = Len(task[t].resp),
                                   ![t].until = now + ExpireOf(task[t].call.op),
                                   ![t].cacheFailed = @ \/ ~up]
    /\ UNCHANGED <<now, ticks, nCalls, focus, served, keyVars, rateVars, storeVars>>

(***************************************************************************)
(* services/marketstack.py: MarketStackClient._make_request.               *)
(***************************************************************************)
CACHE_TTL == 3600
BACKOFF_SECONDS == 60

\* the values the clock can take
ClockValues == {BACKOFF_SECONDS * a + CACHE_TTL * b : a \in 0..MaxTicks, b \in 0..MaxTicks}

\* json.dumps({'data': data, 'timestamp': ts}), marketstack.py:63-68
EnvelopeText(data, ts) ==
    "{\"data\": " \o json_dumps(data) \o ", \"timestamp\": " \o ToString(ts) \o "}"

\* json.loads(cached)['data'], marketstack.py:53-55
EnvelopeData(text) ==
    LET e == CHOOSE e \in PyValues \X ClockValues : EnvelopeText(e[1], e[2]) = text
    IN  e[1]

\* _get_cached_response with Redis answering, marketstack.py:51-56
_get_cached_response(key) ==
    LET cached == redis_get(key)
    IN  IF cached # Nil /\ cached # "" THEN EnvelopeData(cached) ELSE PyNone

\* the mutant of Retryable: a 5xx is retried like a 429
RetryableOr5xx(code) == code = 429 \/ code >= 500

\* the mutant of Retryable: every 4xx is retried like a 429
RetryableOr4xx(code) == code >= 400 /\ code < 500

\* marketstack.py:98: the statuses _make_request sleeps on and retries
Retryable(code) == code = 429

\* the mutant of MsLookup: every stored response is a hit, an empty one too
MsLookupNonNull(t) ==
    /\ task[t].pc = "ms_lookup"
    /\ LET cached_response == _get_cached_response(task[t].key)
       IN  IF Live(task[t].key)
           THEN task' = [task EXCEPT ![t].pc = "done", ![t].lk = "hit",
                                     ![t].sawLive = TRUE,
                                     ![t].lkAt = now, ![t].seen = cached_response,
                                     ![t].until = store[task[t].key].exp,
                                     ![t].result = cached_response]
           ELSE task' = [task EXCEPT ![t].pc = "ms_request", ![t].lk = "miss",
                                     ![t].lkAt = now, ![t].seen = cached_response]
    /\ UNCHANGED <<now, ticks, store, nCalls, focus, served, keyVars, rateVars, storeVars>>

\* marketstack.py:85-87.  redis.get is awaited outside any handler that
\* catches redis.ConnectionError, so an unreachable Redis ends the call.
MsLookup(t) ==
    /\ task[t].pc = "ms_lookup"
    /\ \E up \in BOOLEAN :
          IF ~up
          THEN task' = [task EXCEPT ![t].pc = "done", ![t].lk = "raised",
                                    ![t].cacheFailed = TRUE, ![t].err = ConnectionError]
          ELSE LET cached_response == _get_cached_response(task[t].key)
               IN  IF Truthy(cached_response)
                   THEN task' = [task EXCEPT ![t].pc = "done", ![t].lk = "hit",
                                             ![t].sawLive = Live(task[t].key),
                                             ![t].lkAt = now, ![t].seen = cached_response,
                                             ![t].until = store[task[t].key].exp,
                                             ![t].result = cached_response]
                   ELSE task' = [task EXCEPT ![t].pc = "ms_request", ![t].lk = "miss",
                                             ![t].sawLive = Live(task[t].key),
                                             ![t].sawExpired = (task[t].key \in DOMAIN store
                                                                /\ ~Live(task[t].key)),
                                             ![t].lkAt = now, ![t].seen = cached_response]
    /\ UNCHANGED <<now, ticks, store, nCalls, focus, served, keyVars, rateVars, storeVars>>

\* marketstack.py:89-93 and 97-109
MsRequest(t) ==
    /\ task[t].pc = "ms_request"
    /\ \E r \in Responses, n \in 0..MaxItems :
          LET me == [task[t] EXCEPT !.fetches = @ + 1, !.requests = @ + 1, !.attempts = @ + 1,
                                    !.resp = Append(@, r.code)] IN
          /\ (r.kind = "http" /\ r.code # 200 /\ Retryable(r.code)) => me.attempts < MaxAttempts
          /\ IF r.kind = "error"
             THEN task' = [task EXCEPT ![t] = [me EXCEPT !.pc = "done",
                                                         !.fetchFailed = TRUE,
                                                         !.err = HTTPException(500)]]
             ELSE IF r.code = 200
             THEN task' = [task EXCEPT ![t] = [me EXCEPT !.pc = "ms_store",
                                                         !.fetched = PyDict(n)]]
             ELSE IF Retryable(r.code)
             THEN task' = [task EXCEPT ![t] =
                             [me EXCEPT !.pc = "ms_sleep",
                                        !.n5xx = IF r.code >= 500 THEN @ + 1 ELSE @,
                                        !.sleeps = @ + 1, !.wake = now + BACKOFF_SECONDS]]
             ELSE task' = [task EXCEPT ![t] =
                             [me EXCEPT !.pc = "done", !.fetchFailed = TRUE,
                                        !.n5xx = IF r.code >= 500 THEN @ + 1 ELSE @,
                                        !.err = HTTPException(r.code)]]
    /\ UNCHANGED <<now, ticks, store, nCalls, focus, served, keyVars, rateVars, storeVars>>

\* the mutant of MsStore: the response is returned without being cached
MsStoreSkipped(t) ==
    /\ task[t].pc = "ms_store"
    /\ task' = [task EXCEPT ![t].pc = "done", ![t].result = task[t].fetched]
    /\ UNCHANGED <<now, ticks, store, nCalls, focus, served, keyVars, rateVars, storeVars>>

\* marketstack.py:94-96 with _cache_response, 60-72: only TypeError and
\* ValueError are caught there, and _make_request catches httpx errors only
MsStore(t) ==
    /\ task[t].pc = "ms_store"
    /\ \E up \in BOOLEAN :
          IF ~up
          THEN /\ task' = [task EXCEPT ![t].pc = "done", ![t].cacheFailed = TRUE,
                                       ![t].sets = @ + 1, ![t].setAfter = Len(task[t].resp),
                                       ![t].err = ConnectionError]
               /\ store' = store
          ELSE /\ store' = redis_setex(task[t].key, CACHE_TTL,
                                       EnvelopeText(task[t].fetched, now), FALSE)
               /\ task' = [Superseded(t, TRUE) EXCEPT
                                        ![t].pc = "done", ![t].until = now + CACHE_TTL,
                                        ![t].sets = @ + 1, ![t].setAfter = Len(task[t].resp),
                                        ![t].result = task[t].fetched]
    /\ UNCHANGED <<now, ticks, nCalls, focus, served, keyVars, rateVars, storeVars>>

\* the mutant of MsWake: after the sleep the request is repeated at once
MsWakeNoLookup(t) ==
    /\ task[t].pc = "ms_sleep"
    /\ now >= task[t].wake
    /\ task' = [task EXCEPT ![t].pc = "ms_request", ![t].fetches = 0]
    /\ UNCHANGED <<now, ticks, store, nCalls, focus, served, keyVars, rateVars, storeVars>>

\* marketstack.py:99-100: after the sleep _make_request calls itself; the
\* new invocation starts with its own lookup
MsWake(t) ==
    /\ task[t].pc = "ms_sleep"
    /\ now >= task[t].wake
    /\ task' = [task EXCEPT ![t].pc = "ms_lookup", ![t].lk = "none", ![t].sawLive = FALSE,
                             ![t].sawExpired = FALSE, ![t].seen = NoValue,
                             ![t].fetches = 0]
    /\ UNCHANGED <<now, ticks, store, nCalls, focus, served, keyVars, rateVars, storeVars>>

\* services/marketstack_client.py:50-65, the body rate_limit wraps;
\* line 52 stores the credential in the dict it was handed
RcRequest(t) ==
    /\ task[t].pc = "rc_request"
    /\ \E r \in Responses, n \in 0..MaxItems :
          LET me == [task[t] EXCEPT !.fetches = @ + 1, !.requests = @ + 1, !.attempts = @ + 1,
                                    !.params = DictSet(@, ACCESS_KEY, ApiKey),
                                    !.resp = Append(@, r.code)] IN
          IF r.kind = "error"
          THEN task' = [task EXCEPT ![t] = [me EXCEPT !.pc = "done",
                                                      !.fetchFailed = TRUE,
                                                      !.err = HTTPException(503)]]
          ELSE IF r.code = 200
          THEN task' = [task EXCEPT ![t] = [me EXCEPT !.pc = "done",
                                                      !.fetched = PyDict(n),
                                                      !.result = PyDict(n)]]
          ELSE task' = [task EXCEPT ![t] =
                          [me EXCEPT !.pc = "done", !.fetchFailed = TRUE,
                                     !.n5xx = IF r.code >= 500 THEN @ + 1 ELSE @,
                                     !.err = HTTPException(r.code)]]
    /\ UNCHANGED <<now, ticks, store, nCalls, focus, served, keyVars, rateVars, storeVars>>

\* what the caller asked for: the operation and its argument values (the
\* instance the method is called on is not an argument of the request)
Request(c) == [op |-> c.op, q |-> c.q, df |-> c.df, dt |-> c.dt]

\* the caller has its result or its exception; the task is free again.
\* `served` is history: the payload of the request's last call that
\* succeeded with Redis answering, and the expiry of the entry behind it.
Return(t) ==
    /\ task[t].pc = "done"
    /\ task' = [task EXCEPT ![t] = IdleTask]
    /\ LET c == Request(task[t].call)
           ok == /\ task[t].err = NoErr /\ ~task[t].fetchFailed /\ ~task[t].cacheFailed
                 /\ task[t].call.op \in Decorated \cup {"eod"}
       IN  served' =
             IF ok THEN [x \in DOMAIN served \cup {c} |->
                           IF x = c THEN [result |-> task[t].result, until |-> task[t].until]
                           ELSE served[x]]
             ELSE served
    /\ UNCHANGED <<now, ticks, store, nCalls, focus, keyVars, rateVars, storeVars>>

\* time passes: a backoff delay, or a TTL
Tick ==
    /\ ticks < MaxTicks
    /\ \/ \E t \in DOMAIN task : task[t].pc = "ms_sleep"
       \/ \E k \in DOMAIN store : Live(k)
    /\ \E d \in {BACKOFF_SECONDS, CACHE_TTL} : now' = now + d
    /\ ticks' = ticks + 1
    /\ UNCHANGED <<store, task, nCalls, focus, served, keyVars, rateVars, storeVars>>

Next ==
    \/ \E t \in DOMAIN task : Call(t)
    \/ \E t \in DOMAIN task : Lookup(t)
    \/ \E t \in DOMAIN task : Fetch(t)
    \/ \E t \in DOMAIN task : Store(t)
    \/ \E t \in DOMAIN task : MsLookup(t)
    \/ \E t \in DOMAIN task : MsRequest(t)
    \/ \E t \in DOMAIN task : MsStore(t)
    \/ \E t \in DOMAIN task : MsWake(t)
    \/ \E t \in DOMAIN task : RcRequest(t)
    \/ \E t \in DOMAIN task : Return(t)
    \/ Tick

Spec == MainInit /\ [][Next]_vars

(***************************************************************************)
(* services/marketstack_client.py: rate_limit(calls, period), applied to   *)
(* MarketStackClient._make_request with calls=5, period=1.  The callers    *)
(* are interchangeable, so the suspended ones are kept as a count per      *)
(* wake-up time and the entries into the wrapped function as their times.  *)
(***************************************************************************)
CALLS == 5
PERIOD == 1

\* marketstack_client.py:23-24
RECURSIVE Prune(_, _)
Prune(ts, t) == IF ts # <<>> /\ Head(ts) < t - PERIOD THEN Prune(Tail(ts), t) ELSE ts

Suspended(w) == IF w \in DOMAIN sleeping THEN sleeping[w] ELSE 0

RateInit ==
    /\ RateIdle
    /\ MainIdle
    /\ StoreIdle
    /\ callA = NoCall /\ callB = NoCall /\ keyA = NoKey /\ keyB = NoKey

\* wrapper, marketstack_client.py:19-31, up to its first await: either the
\* sleep of line 29 or the wrapped function itself.  The call is made
\* through the client instance inst; `timestamps` is the one list the
\* decorator created when the class body was executed.
RlCall ==
    /\ arrivals < MaxArrivals
    /\ arrivals' = arrivals + 1
    /\ \E inst \in Addrs :
       LET t == rnow
           ts == Prune(Append(timestamps, t), t)
           sleep_time == ts[1] + PERIOD - t
           slept == Len(ts) > CALLS /\ sleep_time > 0
       IN  /\ timestamps' = ts
           /\ owned' = [i \in Addrs |->
                          Prune(IF i = inst THEN Append(owned[i], t) ELSE owned[i], t)]
           /\ lastCall' = [inst |-> inst, slept |-> slept]
           /\ IF slept
              THEN /\ sleeping' = [w \in DOMAIN sleeping \cup {t + sleep_time} |->
                                     IF w = t + sleep_time THEN Suspended(w) + 1 ELSE sleeping[w]]
                   /\ started' = started
              ELSE /\ started' = Append(started, t)
                   /\ sleeping' = sleeping
    /\ UNCHANGED <<rnow, cancelled, keyVars, mainVars, storeVars>>

\* the mutant of RlWake: the wrapper returns after its sleep without
\* calling the wrapped function
RlWakeWithoutCall ==
    /\ \E w \in DOMAIN sleeping :
          /\ sleeping[w] > 0
          /\ w <= rnow
          /\ sleeping' = [sleeping EXCEPT ![w] = @ - 1]
    /\ UNCHANGED <<rnow, timestamps, started, arrivals, owned, lastCall, cancelled,
                   keyVars, mainVars, storeVars>>

\* marketstack_client.py:29-31: the sleep is over, the wrapped function runs
RlWake ==
    /\ \E w \in DOMAIN sleeping :
          /\ sleeping[w] > 0
          /\ w <= rnow
          /\ sleeping' = [sleeping EXCEPT ![w] = @ - 1]
    /\ started' = Append(started, rnow)
    /\ UNCHANGED <<rnow, timestamps, arrivals, owned, lastCall, cancelled,
                   keyVars, mainVars, storeVars>>

\* marketstack_client.py:29: the task of a suspended caller is cancelled;
\* asyncio.CancelledError leaves the wrapper, which has no handler and no
\* finally, so nothing else happens
RlCancel ==
    /\ \E w \in DOMAIN sleeping :
          /\ sleeping[w] > 0
          /\ sleeping' = [sleeping EXCEPT ![w] = @ - 1]
    /\ cancelled' = cancelled + 1
    /\ UNCHANGED <<rnow, timestamps, started, arrivals, owned, lastCall,
                   keyVars, mainVars, storeVars>>

\* a second passes; the event loop has first resumed every caller that was
\* due.  The clock runs on until no caller is waiting for it.
RlTick ==
    /\ rnow < MaxRTime \/ \E w \in DOMAIN sleeping : sleeping[w] > 0
    /\ \A w \in DOMAIN sleeping : sleeping[w] > 0 => w > rnow
    /\ rnow' = rnow + 1
    /\ UNCHANGED <<timestamps, sleeping, started, arrivals, owned, lastCall, cancelled,
                   keyVars, mainVars, storeVars>>

RateNext == RlCall \/ RlWake \/ RlCancel \/ RlTick

RateSpec == RateInit /\ [][RateNext]_vars

\* the event loop resumes a caller whose sleep is over, and time passes
RateLiveSpec == RateSpec /\ WF_vars(RlWake) /\ WF_vars(RlTick)

\* entries into the wrapped function during the PERIOD seconds from w on
StartsIn(w) == Cardinality({i \in 1..Len(started) : started[i] >= w /\ started[i] < w + PERIOD})

\* C8: under any number and interleaving of callers at most CALLS wrapped
\* requests start executing within any window of PERIOD seconds.
C8_AtMostNPerWindow ==
    \A w \in 0..MaxRTime : StartsIn(w) <= CALLS

(***************************************************************************)
(* Claims about the cache-aside paths and the provider clients (Spec).     *)
(***************************************************************************)
Running == {t \in DOMAIN task : task[t].pc # "idle"}

C2_RetryBounded ==
    \A t \in Running : task[t].attempts <= RetryBound + 1

\* C3: a failed provider call writes no cache entry, and no call is served
\* an entry that a failed provider call stored.
C3_FailuresNeverCached ==
    /\ \A k \in DOMAIN store : ~store[k].failed
    /\ \A t \in Running : task[t].lk = "hit" => ~store[task[t].key].failed

\* C4: a cache get or set that fails surfaces no cache error, and the call
\* still returns the successful result of its fetch unchanged.
C4_CacheFailureIsolated ==
    \A t \in Running :
        /\ task[t].err # ConnectionError
        /\ (task[t].pc = "done" /\ task[t].cacheFailed /\ task[t].fetched # NoValue)
              => (task[t].err = NoErr /\ task[t].result = task[t].fetched)

\* a to-date before the from-date, or an empty symbol / query
InvalidInput(c) == c.op \in {"news", "eod"} /\ (c.dt < c.df \/ c.q = <<>>)

\* C9: a call with invalid input issues no provider request and, Redis
\* answering, ends with InvalidRequest (HTTP 400).
C9_InvalidInputFailsFast ==
    \A t \in Running :
        InvalidInput(task[t].call)
            => /\ task[t].requests = 0
               /\ (task[t].pc = "done" /\ task[t].err # ConnectionError)
                     => task[t].err = HTTPException(400)

C11_ThrottledThenRecovers ==
    \A t \in Running :
        /\ (task[t].resp \in {<<429>>, <<429, 429>>} /\ ~task[t].cacheFailed)
              => task[t].pc # "done"
        /\ (task[t].resp = <<429, 429, 200>> /\ task[t].pc = "done" /\ ~task[t].cacheFailed)
              => /\ task[t].err = NoErr
                 /\ task[t].sleeps = 2 /\ task[t].attempts = 3
                 /\ task[t].result = task[t].fetched

\* C12: after a call that succeeded, a repeat call with identical arguments
\* inside the TTL window (Redis answering) makes no provider request and
\* returns the payload the first call returned.
C12_WarmCacheIdempotent ==
    \A t \in Running :
        LET c == Request(task[t].call) IN
        (c \in DOMAIN served /\ now < served[c].until /\ ~task[t].cacheFailed)
            => /\ task[t].requests = 0
               /\ task[t].pc = "done" => task[t].result = served[c].result

(***************************************************************************)
(* The stores, used directly: CacheService.get / set / delete (and aget /  *)
(* aset / adelete, the same bodies on the async client) as the routes call *)
(* them, MarketStackClient._cache_response, and the in-memory cache of     *)
(* CompanyDataService.  nCalls counts the commands sent.                   *)
(***************************************************************************)
MaxOps == 2                \* commands sent to the stores in one run

DEFAULT_EXPIRE == 3600     \* expire: int = 3600
REFRESH_EXPIRE == 43200    \* the refresh marker's expire
FIGURES_MAX_AGE == 3600    \* _is_cache_valid: age.total_seconds() < 3600

Raw(s) == [kind |-> "raw", s |-> s]

\* f"rss_token:{user_id}" and f"news_refresh:{symbol}"
TokenKey == Raw(<<"r", "s", "s", "_", "t", "o", "k", "e", "n", ":", "1">>)
RefreshKey == Raw(<<"n", "e", "w", "s", "_", "r", "e", "f", "r", "e", "s", "h", ":", "a">>)
ServiceKeys == {TokenKey, RefreshKey}
ResponseKey == ms_cache_key(EndpointStr("eod"), <<>>)

\* the (key, expire) pairs set is called with: the token with the default
\* expire (and with what else an int can be), the refresh marker with its own
SetCalls == {<<TokenKey, e>> : e \in {0, 60, DEFAULT_EXPIRE}} \cup {<<RefreshKey, REFRESH_EXPIRE>>}

StoreValues == {PyNone} \cup {PyList(n) : n \in 0..MaxItems}

\* the clock advances by a minute or by an hour
ClockSteps == {BACKOFF_SECONDS, CACHE_TTL}

Logged(k, op) == [x \in DOMAIN oplog \cup {k} |-> IF x = k THEN op ELSE oplog[x]]

\* a run exercises Redis or the in-memory cache: they share nothing
StoreInit ==
    /\ now = 0
    /\ ticks = 0
    /\ store = <<>>
    /\ task = [t \in {} |-> 0]
    /\ nCalls = 0
    /\ focus \in {"redis", "figures"}
    /\ served = <<>>
    /\ RateIdle
    /\ StoreIdle
    /\ callA = NoCall /\ callB = NoCall /\ keyA = NoKey /\ keyB = NoKey

\* CacheService.set / aset(key, value, expire)
CacheSet ==
    /\ focus = "redis"
    /\ nCalls < MaxOps
    /\ \E c \in SetCalls, v \in StoreValues, up \in BOOLEAN :
          LET k == c[1]
              expire == c[2]
          IN  /\ store' = aset(k, v, expire, up, FALSE)
              /\ oplog' = IF up /\ setex_accepts(expire)
                           THEN Logged(k, [op |-> "set", val |-> v, ttl |-> expire, at |-> now])
                           ELSE oplog
    /\ nCalls' = nCalls + 1
    /\ got' = NoGet
    /\ UNCHANGED <<now, ticks, task, focus, served, mcache, mexpiry, fig, figB, ageChecked,
                   keyVars, rateVars>>

\* MarketStackClient._cache_response(key, data, ttl), marketstack.py:60-72;
\* an unreachable Redis makes it raise and nothing is written
CacheResponse ==
    /\ focus = "redis"
    /\ nCalls < MaxOps
    /\ \E n \in 0..MaxItems, up \in BOOLEAN :
          IF up /\ setex_accepts(CACHE_TTL)
          THEN /\ store' = redis_setex(ResponseKey, CACHE_TTL, EnvelopeText(PyDict(n), now), FALSE)
               /\ oplog' = Logged(ResponseKey, [op |-> "set", val |-> PyDict(n),
                                                ttl |-> CACHE_TTL, at |-> now])
          ELSE UNCHANGED <<store, oplog>>
    /\ nCalls' = nCalls + 1
    /\ got' = NoGet
    /\ UNCHANGED <<now, ticks, task, focus, served, mcache, mexpiry, fig, figB, ageChecked,
                   keyVars, rateVars>>

\* CacheService.get / aget(key)
CacheGet ==
    /\ focus = "redis"
    /\ \E k \in ServiceKeys, up \in BOOLEAN :
          got' = [key |-> k, val |-> aget(k, up), up |-> up]
    /\ UNCHANGED <<mainVars, oplog, mcache, mexpiry, fig, figB, ageChecked, keyVars, rateVars>>

\* CacheService.delete / adelete(key); the log keeps what the key held
CacheDelete ==
    /\ focus = "redis"
    /\ nCalls < MaxOps
    /\ \E k \in ServiceKeys, up \in BOOLEAN :
          /\ store' = adelete(k, up)
          /\ oplog' = IF up
                       THEN Logged(k, [op |-> "delete", val |-> aget(k, TRUE), ttl |-> 0,
                                       at |-> now])
                       ELSE oplog
    /\ nCalls' = nCalls + 1
    /\ got' = NoGet
    /\ UNCHANGED <<now, ticks, task, focus, served, mcache, mexpiry, fig, figB, ageChecked,
                   keyVars, rateVars>>

StoreTick ==
    /\ ticks < MaxTicks
    /\ \E d \in ClockSteps : now' = now + d
    /\ ticks' = ticks + 1
    /\ got' = NoGet
    /\ UNCHANGED <<store, task, nCalls, focus, served, oplog, mcache, mexpiry, fig, figB, ageChecked,
                   keyVars, rateVars>>

(***************************************************************************)
(* services/company_data.py: CompanyDataService.get_company_figures.  A    *)
(* part of the combined data is "data" when its source answered and        *)
(* "empty" (the {} of the except branches) when the request failed.        *)
(***************************************************************************)
FigSymbols == {"a", "b"}

\* the timestamp the check of a call reads (-1: the symbol has none)
StampOf(symbol) == IF symbol \in DOMAIN mexpiry THEN mexpiry[symbol] ELSE -1

\* the mutant of _is_cache_valid: an entry exactly 3600 seconds old is valid
_is_cache_valid_inclusive(symbol) ==
    IF symbol \notin DOMAIN mexpiry THEN FALSE
    ELSE now - mexpiry[symbol] <= FIGURES_MAX_AGE

\* company_data.py:155-160
_is_cache_valid(symbol) ==
    IF symbol \notin DOMAIN mexpiry THEN FALSE
    ELSE now - mexpiry[symbol] < FIGURES_MAX_AGE

\* _fetch_market_data / _fetch_sec_data / _fetch_fda_data: any exception
\* is printed and answered with {}
_fetch(ok) == IF ok THEN "data" ELSE "empty"

\* company_data.py:33-35, up to the await of the gather
FigCall ==
    /\ focus = "figures"
    /\ fig.pc = "idle"
    /\ nCalls < MaxOps
    /\ \E symbol \in FigSymbols :
          /\ fig' = IF _is_cache_valid(symbol)
                     THEN [NoFig EXCEPT !.pc = "done", !.symbol = symbol, !.at = now,
                                        !.stamp = StampOf(symbol),
                                        !.result = mcache[symbol]]
                     ELSE [NoFig EXCEPT !.pc = "gather", !.symbol = symbol, !.at = now,
                                        !.stamp = StampOf(symbol)]
          /\ ageChecked' = (ageChecked \/ symbol \in DOMAIN mexpiry)
    /\ nCalls' = nCalls + 1
    /\ UNCHANGED <<now, ticks, store, task, focus, served, oplog, got, mcache, mexpiry, figB,
                   keyVars, rateVars>>

\* company_data.py:38-54: the three fetches have ended; combine, cache, return
FigGather ==
    /\ fig.pc = "gather"
    /\ \E ok \in [Sources -> BOOLEAN] :
          LET combined_data == [src \in Sources |-> _fetch(ok[src])]
              symbol == fig.symbol
          IN  /\ mcache' = [x \in DOMAIN mcache \cup {symbol} |->
                              IF x = symbol THEN combined_data ELSE mcache[x]]
              /\ mexpiry' = [x \in DOMAIN mexpiry \cup {symbol} |->
                               IF x = symbol THEN now ELSE mexpiry[x]]
              /\ fig' = [fig EXCEPT !.pc = "done", !.fetches = Cardinality(Sources),
                                     !.failed = {src \in Sources : ~ok[src]},
                                     !.result = combined_data]
    /\ UNCHANGED <<mainVars, oplog, got, figB, ageChecked, keyVars, rateVars>>

\* the caller has its CompanyFigures
FigReturn ==
    /\ fig.pc = "done"
    /\ fig' = NoFig
    /\ UNCHANGED <<mainVars, oplog, got, mcache, mexpiry, figB, ageChecked, keyVars, rateVars>>

\* a second call of get_company_figures on the same service, suspended at
\* its own gather while the first proceeds: company_data.py:33-35
FigCallB ==
    /\ focus = "figures"
    /\ figB.pc = "idle"
    /\ nCalls < MaxOps
    /\ \E symbol \in FigSymbols :
          /\ figB' = IF _is_cache_valid(symbol)
                      THEN [NoFig EXCEPT !.pc = "done", !.symbol = symbol, !.at = now,
                                         !.stamp = StampOf(symbol),
                                         !.result = mcache[symbol]]
                      ELSE [NoFig EXCEPT !.pc = "gather", !.symbol = symbol, !.at = now,
                                         !.stamp = StampOf(symbol)]
          /\ ageChecked' = (ageChecked \/ symbol \in DOMAIN mexpiry)
    /\ nCalls' = nCalls + 1
    /\ UNCHANGED <<now, ticks, store, task, focus, served, oplog, got, mcache, mexpiry, fig,
                   keyVars, rateVars>>

\* company_data.py:38-54, the second call
FigGatherB ==
    /\ figB.pc = "gather"
    /\ \E ok \in [Sources -> BOOLEAN] :
          LET combined_data == [src \in Sources |-> _fetch(ok[src])]
              symbol == figB.symbol
          IN  /\ mcache' = [x \in DOMAIN mcache \cup {symbol} |->
                              IF x = symbol THEN combined_data ELSE mcache[x]]
              /\ mexpiry' = [x \in DOMAIN mexpiry \cup {symbol} |->
                               IF x = symbol THEN now ELSE mexpiry[x]]
              /\ figB' = [figB EXCEPT !.pc = "done", !.fetches = Cardinality(Sources),
                                       !.failed = {src \in Sources : ~ok[src]},
                                       !.result = combined_data]
    /\ UNCHANGED <<mainVars, oplog, got, fig, ageChecked, keyVars, rateVars>>

FigReturnB ==
    /\ figB.pc = "done"
    /\ figB' = NoFig
    /\ UNCHANGED <<mainVars, oplog, got, mcache, mexpiry, fig, ageChecked, keyVars, rateVars>>

StoreNext ==
    \/ CacheSet
    \/ CacheResponse
    \/ CacheGet
    \/ CacheDelete
    \/ StoreTick
    \/ FigCall
    \/ FigGather
    \/ FigReturn
    \/ FigCallB
    \/ FigGatherB
    \/ FigReturnB

StoreSpec == StoreInit /\ [][StoreNext]_vars

(***************************************************************************)
(* Claims about the stores (StoreSpec).                                    *)
(***************************************************************************)
\* the get just made reached Redis
Got == got # NoGet /\ got.up

\* the last set or delete Redis executed on the key read
LastOp == oplog[got.key]

\* what a get of Redis answers around the TTL boundary
TTLBoundaryOfGet ==
    Got => /\ got.key \notin DOMAIN oplog => got.val = PyNone
           /\ (got.key \in DOMAIN oplog /\ LastOp.op = "set")
                 => /\ now < LastOp.at + LastOp.ttl => got.val = LastOp.val
                    /\ now > LastOp.at + LastOp.ttl => got.val = PyNone

\* C13, as claimed: an entry set at t with TTL T is returned by get at
\* every time before t+T and absent at every time after, a key never set
\* is absent, and no caller compares a timestamp with the clock itself.
C13_TTLBoundaryNoCallerClock ==
    /\ TTLBoundaryOfGet
    /\ ~ageChecked

\* C13, amended: the TTL boundary holds for CacheService (Redis expires the
\* entry); CompanyDataService keeps its own in-memory cache and decides
\* itself, from the stored timestamp, that an entry less than 3600 s old is
\* served and an older or missing one is fetched again.
C13_TTLBoundary ==
    /\ TTLBoundaryOfGet
    /\ (fig.pc = "done" /\ fig.fetches = 0)
          => (fig.stamp >= 0 /\ fig.at - fig.stamp < FIGURES_MAX_AGE)
    /\ fig.pc = "gather"
          => (fig.stamp < 0 \/ fig.at - fig.stamp >= FIGURES_MAX_AGE)

\* C13 witness: a get after the TTL of the last set has elapsed answers absent
C13_Witness ==
    /\ Got /\ got.key \in DOMAIN oplog /\ LastOp.op = "set" /\ LastOp.val # PyNone
    /\ now > LastOp.at + LastOp.ttl
    /\ got.val = PyNone

\* C14: every entry a write path creates (CacheService.set / aset as
\* cache_result and the routes call it, _cache_response) was stored by a
\* SETEX with a finite TTL of at least one second, and expires at the time
\* of the write plus that TTL.
C14_EveryEntryExpires ==
    \A k \in DOMAIN store :
        /\ store[k].exp # NoExpiry
        /\ k \in DOMAIN oplog /\ oplog[k].op = "set"
        /\ oplog[k].ttl >= 1
        /\ store[k].exp = oplog[k].at + oplog[k].ttl

\* C14 witness: the refresh marker written by aset and a response written
\* by _cache_response are both in Redis, each with its expiry
C14_Witness ==
    /\ RefreshKey \in DOMAIN store /\ store[RefreshKey].exp = oplog[RefreshKey].at + REFRESH_EXPIRE
    /\ ResponseKey \in DOMAIN store /\ store[ResponseKey].exp = oplog[ResponseKey].at + CACHE_TTL

(***************************************************************************)
(* Concurrent callers: two request-handling tasks, each making one call    *)
(* through the cache-aside paths, interleaved at their awaits.             *)
(***************************************************************************)
ConcTasks == {"t1", "t2"}

ConcInit ==
    /\ now = 0
    /\ ticks = 0
    /\ store = <<>>
    /\ task = [t \in ConcTasks |-> IdleTask]
    /\ nCalls = 0
    /\ focus \in Decorated \cup {"eod"}
    /\ served = <<>>
    /\ callA = NoCall /\ callB = NoCall /\ keyA = NoKey /\ keyB = NoKey
    /\ RateIdle
    /\ StoreIdle

ConcNext ==
    \/ \E t \in DOMAIN task : Call(t)
    \/ \E t \in DOMAIN task : Lookup(t)
    \/ \E t \in DOMAIN task : Fetch(t)
    \/ \E t \in DOMAIN task : Store(t)
    \/ \E t \in DOMAIN task : MsLookup(t)
    \/ \E t \in DOMAIN task : MsRequest(t)
    \/ \E t \in DOMAIN task : MsStore(t)

ConcSpec == ConcInit /\ [][ConcNext]_vars

\* the call of t missed, fetched successfully and had its set executed
MissedAndStored(t) ==
    /\ task[t].pc = "done" /\ task[t].lk = "miss"
    /\ task[t].err = NoErr /\ ~task[t].fetchFailed /\ ~task[t].cacheFailed

\* the value Redis holds under the key of t, decoded as the reader decodes it
Held(t) ==
    IF task[t].call.op = "eod" THEN EnvelopeData(store[task[t].key].val)
    ELSE json_loads(store[task[t].key].val)

\* C15: when two callers miss the same key, neither fetch is suppressed:
\* each makes its own provider request and its own set, each returns the
\* value its own fetch produced, and once both have finished the entry
\* holds the value of the set that Redis executed last.
C15_StampedeLastSetWins ==
    \A t, u \in DOMAIN task :
        (t # u /\ task[t].key = task[u].key /\ MissedAndStored(t) /\ MissedAndStored(u))
            => /\ task[t].requests = 1 /\ task[u].requests = 1
               /\ task[t].result = task[t].fetched /\ task[u].result = task[u].fetched
               /\ task[t].wroteLast # task[u].wroteLast
               /\ task[t].wroteLast => Held(t) = task[t].fetched

\* C15 witness: two callers missed the same key, fetched different values,
\* each returned its own, and the entry holds the later writer's
C15_Witness ==
    \E t, u \in DOMAIN task :
        /\ t # u /\ task[t].key = task[u].key /\ MissedAndStored(t) /\ MissedAndStored(u)
        /\ task[t].fetched # task[u].fetched
        /\ task[t].result = task[t].fetched /\ task[u].result = task[u].fetched
        /\ task[t].wroteLast /\ Held(t) = task[t].fetched

\* C16: a call whose provider request failed ends with a classified error
\* (an HTTPException) and returns no payload in its place.
C16_ProviderErrorSurfaced ==
    \A t \in Running :
        (task[t].pc = "done" /\ task[t].fetchFailed)
            => (task[t].err.type = "HTTPException" /\ task[t].result = NoValue)

\* a call that found no live entry under its key and whose provider request
\* was answered with a success
ColdAndFetched(t) ==
    /\ task[t].lk = "miss" /\ ~task[t].sawLive
    /\ task[t].resp # <<>> /\ task[t].resp[1] = 200

\* C17: a call on an empty cache whose fetch succeeds makes exactly one
\* provider request and issues exactly one cache set; the set is issued
\* after the response has been received and parsed, and before the call
\* returns.
C17_ColdCacheWriteOrdering ==
    \A t \in Running :
        /\ (task[t].lk = "miss" /\ task[t].resp = <<>>) => task[t].sets = 0
        /\ (ColdAndFetched(t) /\ task[t].pc \in {"store", "ms_store"})
               => (task[t].requests = 1 /\ task[t].sets = 0 /\ task[t].fetched # NoValue)
        /\ (ColdAndFetched(t) /\ task[t].pc = "done")
               => (task[t].requests = 1 /\ task[t].sets = 1 /\ task[t].setAfter = 1)

C17_Witness ==
    \E t \in Running :
        /\ ColdAndFetched(t) /\ task[t].pc = "done" /\ task[t].call.op = "eod"
        /\ task[t].result = task[t].fetched /\ task[t].sets = 1
        /\ task[t].key \in DOMAIN store /\ store[task[t].key].exp = now + CACHE_TTL

\* the operations that go through a provider client: NewsService.fetch_news
\* and the _make_request of the two MarketStack clients
ClientOps == {"news", "eod", "latest"}

\* a 4xx status other than the rate-limit status
ClientError(code) == code >= 400 /\ code < 500 /\ code # 429

\* C18: a 4xx response other than 429 ends the call at once with an
\* HTTPException of that status: it is the call's last provider request, no
\* backoff delay follows it, and the call writes nothing to the cache.
C18_ClientErrorSurfacedAtOnce ==
    \A t \in Running :
        \A i \in 1..Len(task[t].resp) :
            (task[t].call.op \in ClientOps /\ ClientError(task[t].resp[i]))
                => /\ i = Len(task[t].resp)
                   /\ task[t].pc = "done"
                   /\ task[t].err = HTTPException(task[t].resp[i])
                   /\ task[t].sleeps = i - 1
                   /\ task[t].sets = 0 /\ ~task[t].wroteLast
                   /\ task[t].result = NoValue

C18_Witness ==
    \E t \in Running :
        /\ task[t].call.op = "eod" /\ task[t].resp = <<404>>
        /\ task[t].pc = "done" /\ task[t].err = HTTPException(404)
        /\ task[t].sleeps = 0 /\ task[t].key \notin DOMAIN store

\* C19: the combined figures an operation returns are never partly
\* populated: every part comes from a source whose request succeeded.
C19_NoPartialResult ==
    fig.pc = "done" => \A src \in Sources : fig.result[src] = "data"

\* C20: a get that reaches Redis answers from the last set or delete Redis
\* executed on the key: absent after a delete or on a key never set, the
\* value of the last set while its TTL has not elapsed, absent once it
\* has.  The entry under a key is the one the last set wrote, value and TTL
\* both, and a deleted key has no entry.
C20_LastWriteDecidesGet ==
    /\ Got => got.val =
                 IF got.key \notin DOMAIN oplog THEN PyNone
                 ELSE IF LastOp.op = "delete" THEN PyNone
                 ELSE IF now < LastOp.at + LastOp.ttl THEN LastOp.val
                 ELSE PyNone
    /\ \A k \in ServiceKeys :
          IF k \in DOMAIN oplog /\ oplog[k].op = "set"
          THEN /\ k \in DOMAIN store
               /\ store[k].val = json_dumps(oplog[k].val)
               /\ store[k].exp = oplog[k].at + oplog[k].ttl
          ELSE k \notin DOMAIN store

\* C20 witness: a get right after the delete of a key that held a live
\* value answers absent
C20_Witness ==
    /\ Got /\ got.key \in DOMAIN oplog
    /\ LastOp.op = "delete" /\ LastOp.val # PyNone /\ LastOp.at = now
    /\ got.val = PyNone /\ got.key \notin DOMAIN store

(***************************************************************************)
(* api/routes/endpoints/tracked.py and rss.py: two route handlers that     *)
(* guard themselves with a CacheService entry.  Each of the requests is    *)
(* one task; they interleave at the awaits of aget and aset.  A run        *)
(* exercises one route (focus).                                            *)
(***************************************************************************)
Handlers == {"h1", "h2"}

\* secrets.token_urlsafe(32): every call returns a str no other call returns
TokenOf(h) == IF h = "h1" THEN 1 ELSE 2

TokenStr(i) == <<"t">> \o IntStr(i)

\* f"rss_user:{token}"
UserKey(i) == Raw(<<"r", "s", "s", "_", "u", "s", "e", "r", ":">> \o TokenStr(i))

\* str(user_id) of the one user of the run
UserIdStr == PyStr(1)

\* datetime.utcnow().isoformat(): a non-empty str, one per clock reading
IsoNow == PyStr(ticks + 1)

IdleHandler ==
    [pc |-> "idle",
     at |-> 0,               \* when the request was received
     up |-> TRUE,            \* Redis answered every get and set of this request
     token |-> 0,            \* the token the request holds (0: none)
     answer |-> "none"]      \* "pass" or "429" (refresh); "token" (generate_feed_token)

RouteInit ==
    /\ now = 0
    /\ ticks = 0
    /\ store = <<>>
    /\ task = [h \in Handlers |-> IdleHandler]
    /\ nCalls = 0
    /\ focus \in {"refresh", "token"}
    /\ served = <<>>
    /\ RateIdle
    /\ StoreIdle
    /\ callA = NoCall /\ callB = NoCall /\ keyA = NoKey /\ keyB = NoKey

\* a request arrives: refresh_company_news or generate_feed_token, up to
\* its first await
RouteCall(h) ==
    /\ task[h].pc = "idle"
    /\ task' = [task EXCEPT ![h] = [IdleHandler EXCEPT !.pc = focus \o "_get", !.at = now]]
    /\ UNCHANGED <<now, ticks, store, nCalls, focus, served, keyVars, rateVars, storeVars>>

\* check_refresh_rate_limit, tracked.py:24-28
RefreshGet(h) ==
    /\ task[h].pc = "refresh_get"
    /\ \E up \in BOOLEAN :
          LET last_refresh == aget(RefreshKey, up)
          IN  task' = IF Truthy(last_refresh)
                      THEN [task EXCEPT ![h].pc = "done", ![h].answer = "429"]
                      ELSE [task EXCEPT ![h].pc = "refresh_set", ![h].up = up]
    /\ UNCHANGED <<now, ticks, store, nCalls, focus, served, keyVars, rateVars, storeVars>>

\* check_refresh_rate_limit, tracked.py:31-32
RefreshSet(h) ==
    /\ task[h].pc = "refresh_set"
    /\ \E up \in BOOLEAN :
          /\ store' = aset(RefreshKey, IsoNow, REFRESH_EXPIRE, up, FALSE)
          /\ task' = [task EXCEPT ![h].pc = "done", ![h].answer = "pass",
                                   ![h].up = @ /\ up]
    /\ UNCHANGED <<now, ticks, nCalls, focus, served, keyVars, rateVars, storeVars>>

\* generate_feed_token, rss.py:37-40
TokenGet(h) ==
    /\ task[h].pc = "token_get"
    /\ \E up \in BOOLEAN :
          LET token == aget(TokenKey, up)
          IN  task' = IF Truthy(token)
                      THEN [task EXCEPT ![h].pc = "done", ![h].answer = "token",
                                        ![h].token = token.n]
                      ELSE [task EXCEPT ![h].pc = "token_set", ![h].up = up,
                                        ![h].token = TokenOf(h)]
    /\ UNCHANGED <<now, ticks, store, nCalls, focus, served, keyVars, rateVars, storeVars>>

\* generate_feed_token, rss.py:43
TokenSet(h) ==
    /\ task[h].pc = "token_set"
    /\ \E up \in BOOLEAN :
          /\ store' = aset(TokenKey, PyStr(task[h].token), DEFAULT_EXPIRE, up, FALSE)
          /\ task' = [task EXCEPT ![h].pc = "user_set", ![h].up = @ /\ up]
    /\ UNCHANGED <<now, ticks, nCalls, focus, served, keyVars, rateVars, storeVars>>

\* generate_feed_token, rss.py:46-52
UserSet(h) ==
    /\ task[h].pc = "user_set"
    /\ \E up \in BOOLEAN :
          /\ store' = aset(UserKey(task[h].token), UserIdStr, DEFAULT_EXPIRE, up, FALSE)
          /\ task' = [task EXCEPT ![h].pc = "done", ![h].answer = "token",
                                   ![h].up = @ /\ up]
    /\ UNCHANGED <<now, ticks, nCalls, focus, served, keyVars, rateVars, storeVars>>

\* get_rss_feed, rss.py:68-74: the token is accepted (no 404)
FeedAccepts(i) == Truthy(aget(UserKey(i), TRUE))

\* time passes: the TTL of a token, or of a refresh marker
RouteTick ==
    /\ ticks < MaxTicks
    /\ \E d \in {DEFAULT_EXPIRE, REFRESH_EXPIRE} : now' = now + d
    /\ ticks' = ticks + 1
    /\ UNCHANGED <<store, task, nCalls, focus, served, keyVars, rateVars, storeVars>>

RouteNext ==
    \/ \E h \in Handlers : RouteCall(h)
    \/ \E h \in Handlers : RefreshGet(h)
    \/ \E h \in Handlers : RefreshSet(h)
    \/ \E h \in Handlers : TokenGet(h)
    \/ \E h \in Handlers : TokenSet(h)
    \/ \E h \in Handlers : UserSet(h)
    \/ RouteTick

RouteSpec == RouteInit /\ [][RouteNext]_vars

\* the requests that have been answered, Redis having answered them
Answered == {h \in Handlers : task[h].pc = "done" /\ task[h].up}

\* C21: among the refresh requests for one symbol received less than 12
\* hours apart, concurrent ones included, at most one passes
\* check_refresh_rate_limit.
C21_OneRefreshPerWindow ==
    \A g, h \in Answered :
        (/\ g # h
         /\ task[g].answer = "pass" /\ task[h].answer = "pass"
         /\ task[g].at <= task[h].at)
            => task[h].at - task[g].at >= REFRESH_EXPIRE

\* C22: when a suspended caller is cancelled its entry leaves the window
\* of timestamps, so that it no longer counts against later calls.
C22_CancelReleasesSlot ==
    [][cancelled' > cancelled => Len(timestamps') < Len(timestamps)]_vars

\* C23: a call is suspended only on account of the requests issued
\* through its own client instance: a call through an instance with at
\* most CALLS entries of its own in the window is not delayed.
C23_WindowPerInstance ==
    lastCall.slept => Len(owned[lastCall.inst]) > CALLS

\* the TTL the entries of an operation are stored with
TTLOf(op) == IF op = "eod" THEN CACHE_TTL ELSE ExpireOf(op)

\* a step in which a lookup ends in a hit leaves Redis as it was
HitWritesNothing ==
    \A t \in DOMAIN task :
        (task[t].pc \in {"lookup", "ms_lookup"} /\ task'[t].lk = "hit") => store' = store

\* a value served from the cache was stored at most its TTL before the
\* lookup, by a set whose expiry had not been reached; a lookup that met an
\* expired entry is a miss and is followed by one fetch
StaleAtMostTTL ==
    \A t \in Running :
        /\ task[t].lk = "hit"
              => /\ task[t].lkAt < task[t].until
                 /\ task[t].until - TTLOf(task[t].call.op) <= task[t].lkAt
                 /\ task[t].key \in DOMAIN store /\ store[task[t].key].exp = task[t].until
                 /\ task[t].fetches = 0
        /\ task[t].sawExpired
              => /\ task[t].lk = "miss"
                 /\ task[t].pc \notin {"fetch", "ms_request"} => task[t].fetches = 1

\* C24: a cache hit writes nothing and does not extend the expiry of the
\* entry, so a value served from the cache was stored at most TTL earlier,
\* and the first call after the expiry fetches from the provider again.
C24_StalenessBound == [][HitWritesNothing]_vars /\ []StaleAtMostTTL

\* C24 witness: a call that met the expired entry of an earlier call has
\* fetched again and been answered
C24_Witness ==
    \E t \in Running :
        /\ task[t].sawExpired /\ task[t].pc = "done" /\ task[t].fetches = 1
        /\ task[t].result = task[t].fetched /\ task[t].result # NoValue
        /\ task[t].until > now

\* C25: issuing a provider request never changes the params mapping the
\* caller handed to _make_request: during the call and after it has
\* returned or raised, retries included, the mapping is what it was.
C25_ParamsUnchanged ==
    \A t \in Running : task[t].params = CallParams(task[t].call)

\* the callers suspended now
RECURSIVE SumOver(_, _)
SumOver(f, S) == IF S = {} THEN 0
                 ELSE LET x == CHOOSE x \in S : TRUE IN f[x] + SumOver(f, S \ {x})

Waiting == SumOver(sleeping, DOMAIN sleeping)

\* a caller is suspended for at most PERIOD seconds, and every call is
\* either in the wrapped function, suspended (once), or was cancelled
SuspendedOnceAtMostPeriod ==
    /\ \A w \in DOMAIN sleeping : sleeping[w] > 0 => w <= rnow + PERIOD
    /\ arrivals = Len(started) + Waiting + cancelled

\* C26: every call through the rate limiter enters the wrapped function:
\* it is suspended at most once and for at most PERIOD seconds, and unless
\* its caller cancels it, it is resumed, however many calls are pending.
C26_NeverStarves ==
    /\ []SuspendedOnceAtMostPeriod
    /\ <>[](Len(started) + cancelled = arrivals)

\* C26 witness: with more than CALLS calls pending, suspended callers have
\* been resumed and have entered the wrapped function
C26_Witness ==
    /\ arrivals > CALLS + 1
    /\ Waiting = 0 /\ cancelled = 0
    /\ Len(started) = arrivals

(***************************************************************************)
(* Two callers of services/marketstack.py, one of which may be backing off *)
(* while the other is served by the provider and fills the cache.          *)
(***************************************************************************)
RetryInit == ConcInit /\ focus = "eod"

\* both callers ask for the same end-of-day data, hence for the same key
RetryCall(t) == Call(t) /\ task'[t].call = MainCall("eod", 1, <<"a">>, <<1, 2>>)

RetryNext ==
    \/ \E t \in DOMAIN task : RetryCall(t)
    \/ \E t \in DOMAIN task : MsLookup(t)
    \/ \E t \in DOMAIN task : MsRequest(t)
    \/ \E t \in DOMAIN task : MsStore(t)
    \/ \E t \in DOMAIN task : MsWake(t)
    \/ Tick

RetrySpec == RetryInit /\ [][RetryNext]_vars

\* every provider request of a call follows a lookup of its own that
\* missed, made after the backoff delay if the call had been throttled
LookupBeforeEachRequest ==
    \A t \in Running :
        task[t].pc = "ms_request"
            => (task[t].lk = "miss" /\ (task[t].sleeps >= 1 => task[t].lkAt >= task[t].wake))

\* the call of t has been throttled and has looked its key up again since
Rechecked(t) == task[t].sleeps >= 1 /\ task[t].lk # "none" /\ task[t].lkAt >= task[t].wake

C29_OneLiveTokenPerUser ==
    \A g, h \in Answered :
        (task[g].answer = "token" /\ task[h].answer = "token")
            => /\ (task[g].at <= task[h].at /\ task[h].at - task[g].at < DEFAULT_EXPIRE)
                     => task[g].token = task[h].token
               /\ now = task[h].at => FeedAccepts(task[h].token)

\* the values a lookup of the operation takes for a hit: any but None for
\* cache_result, the non-empty ones for MarketStackClient
Usable(op, v) == IF op = "eod" THEN Truthy(v) ELSE v # PyNone

\* C28: a lookup that reaches a live entry is a hit iff the stored value is
\* non-null (cache_result) or non-empty (MarketStackClient).  A call whose
\* key holds a live None or empty result therefore fetches again inside
\* the TTL window; a call whose key holds any other live result is served
\* that result without a fetch.
C28_HitIffUsableValue ==
    \A t \in Running :
        /\ task[t].lk = "hit"
              => /\ task[t].sawLive /\ Usable(task[t].call.op, Held(t))
                 /\ task[t].result = Held(t) /\ task[t].fetches = 0
        /\ (task[t].lk = "miss" /\ task[t].sawLive)
              => /\ task[t].pc \in {"fetch", "ms_request"} => ~Usable(task[t].call.op, Held(t))
                 /\ ~Usable(task[t].call.op, task[t].seen)
                 /\ task[t].pc \notin {"fetch", "ms_request"} => task[t].fetches = 1
        /\ (task[t].sawLive /\ Usable(task[t].call.op, task[t].seen)) => task[t].lk = "hit"

\* C28 witness: inside the TTL window a call found the None an earlier call
\* had stored, and fetched again
C28_Witness ==
    \E t \in Running :
        /\ task[t].call.op = "cap" /\ task[t].sawLive /\ task[t].seen = PyNone
        /\ task[t].lk = "miss" /\ task[t].pc = "done" /\ task[t].fetches = 1

\* the timestamp a call read at its check was less than 3600 seconds old
FreshAtCheck(f) == f.stamp >= 0 /\ f.at - f.stamp < FIGURES_MAX_AGE

\* C30: under any interleaving of get_company_figures calls every symbol
\* with a timestamp has a data entry, a call that finds a timestamp less
\* than 3600 seconds old is served without any upstream fetch, and a call
\* that finds none or an older one fetches all three sources.
C30_FiguresCacheConsistent ==
    /\ DOMAIN mexpiry \subseteq DOMAIN mcache
    /\ \A f \in {fig, figB} :
          f.pc # "idle"
            => /\ FreshAtCheck(f) => (f.pc = "done" /\ f.fetches = 0)
               /\ ~FreshAtCheck(f)
                     => \/ f.pc = "gather"
                        \/ f.pc = "done" /\ f.fetches = Cardinality(Sources)

\* C30 witness: before the call that fetched a symbol has returned, the
\* other call is served that symbol, some seconds later, without a fetch
C30_Witness ==
    /\ fig.pc = "done" /\ fig.fetches = Cardinality(Sources)
    /\ figB.pc = "done" /\ figB.fetches = 0 /\ figB.symbol = fig.symbol
    /\ figB.at > figB.stamp /\ figB.stamp = mexpiry[fig.symbol]

====
